---- MODULE Spec2Model ----
(***************************************************************************)
(* ProjectMatch.TaxonomySelector (src/unnamed/part_000): the in-memory     *)
(* bookkeeping of the items a user has selected per taxonomy and section,  *)
(* the re-render that follows each change, and the scratchpad swap done by *)
(* the taxonomy tab click handler.                                         *)
(*                                                                         *)
(* JavaScript arrays are sequences; a slot emptied by `delete` is the      *)
(* value Hole.  Array positions are zero-based in the source and one-based *)
(* in the sequences: position p of the source is element p + 1 here.       *)
(* An uncaught exception ends the handler where it is raised; the state    *)
(* written before it stays written.                                        *)
(*                                                                         *)
(* A JavaScript object is a function from its own keys; reading a key it   *)
(* does not own goes on to Object.prototype (PropertyKind).  A value that  *)
(* is a string or undefined is <<s>> for the string s and <<>> for         *)
(* undefined, so that undefined differs from every string.                 *)
(***************************************************************************)
EXTENDS Integers, Sequences, FiniteSets, TLC

VARIABLES
    selectedItemsData,  \* self.selectedItemsData
    selectedTaxonomy,   \* self.selectedTaxonomy
    display,            \* HTML of #taxonomy-selection-display
    scratchpad,         \* HTML of #taxonomy-selection-<t>-container, per taxonomy
    lastCall,           \* the handler that ran last, with its arguments (and, for
                        \* a click, the prevTaxonomy the handler read)
    thrown,             \* how that handler ended: NoError or the exception
    rendered,           \* what that handler's renderSelected wrote, if it got there
    log                 \* the selectItem calls made so far (SpecSelect only)

vars == <<selectedItemsData, selectedTaxonomy, display, scratchpad,
          lastCall, thrown, rendered, log>>

----------------------------------------------------------------------------
(* Values *)

\* self.taxonomies
taxonomies == <<"skills", "learnSkills", "interests">>

Taxonomies == {taxonomies[k] : k \in 1..Len(taxonomies)}

\* the JavaScript value undefined, where a string or undefined is held
Undefined == <<>>

\* the string s, where a string or undefined is held
Str(s) == <<s>>

\* undefined and '' are falsy, every other string is truthy
Falsy(v) == v = Undefined \/ v = Str("")

\* the string a value becomes as a property key or in a concatenation
StringOf(v) == IF v = Undefined THEN "undefined" ELSE v[1]

\* the members every object literal {} inherits from Object.prototype
ObjectPrototypeMembers ==
    {"constructor", "hasOwnProperty", "isPrototypeOf", "propertyIsEnumerable",
     "toLocaleString", "toString", "valueOf", "__proto__",
     "__defineGetter__", "__defineSetter__", "__lookupGetter__", "__lookupSetter__"}

\* what obj[key] reads on an object literal: the object's own property, a
\* member inherited from Object.prototype (truthy, and without any property
\* of the selection state), or undefined
PropertyKind(obj, key) ==
    IF key \in DOMAIN obj THEN "own"
    ELSE IF key \in ObjectPrototypeMembers THEN "inherited"
    ELSE "undefined"

\* the taxonomies whose selection markup self.init renders, and so the ones
\* whose items can be clicked
RenderedTaxonomies == {"skills", "learnSkills"}

\* taxonomy names that are not in self.taxonomies: one that reads as
\* undefined and one that Object.prototype answers
UnknownTaxonomies == {"hobbies", "constructor"}

\* the section names the handlers are called with: an ordinary name and a
\* member of Object.prototype
SectionNames == {"Languages", "constructor"}

\* the section names of the selectItem-only runs
SelectSectionNames == SectionNames \cup {"Tools"}

ItemNames == {"Go", "Rust"}

\* at most this many array slots in the whole selection state
MaxItems == 3

NoError == "none"

TypeError == "TypeError"

\* the object literal {'name': itemName}
Item(itemName) == [name |-> itemName]

\* an array slot removed by `delete`: reading it gives undefined
Hole == [empty |-> TRUE]

\* no render happened
NoRender == [rendered |-> FALSE]

\* the markup belonging to a taxonomy, as an opaque value
Html(taxonomyName) == <<taxonomyName>>

\* the empty string ''
EmptyHtml == <<>>

NoCall ==
    [op |-> "none", taxonomyName |-> "", parentItemName |-> "", itemName |-> "",
     prevTaxonomy |-> Undefined]

Call(op, taxonomyName, parentItemName, itemName) ==
    [op |-> op, taxonomyName |-> taxonomyName,
     parentItemName |-> parentItemName, itemName |-> itemName,
     prevTaxonomy |-> Undefined]

Click(clicked, prevTaxonomy) ==
    [op |-> "click", taxonomyName |-> clicked,
     parentItemName |-> "", itemName |-> "",
     prevTaxonomy |-> prevTaxonomy]

----------------------------------------------------------------------------
(* JavaScript built-ins used by the source *)

Min(S) == CHOOSE x \in S : \A y \in S : x <= y

\* element === str for an array element (an object or a hole) and a string
\* primitive: values of different types are never strictly equal
StrictEqualsString(element, str) == FALSE

\* Array.prototype.indexOf(str): zero-based position of the first slot that
\* is present and strictly equal to str, or -1
ArrayIndexOf(items, str) ==
    LET hits == {k \in 1..Len(items) :
                    items[k] # Hole /\ StrictEqualsString(items[k], str)}
    IN  IF hits = {} THEN -1 ELSE Min(hits) - 1

\* truthiness of a number: every number but 0 (and NaN)
Truthy(n) == n # 0

\* delete items[index]: the slot becomes a hole, the length stays;
\* an index that names no slot (-1) deletes nothing
ArrayDelete(items, index) ==
    IF index >= 0 /\ index < Len(items)
    THEN [items EXCEPT ![index + 1] = Hole]
    ELSE items

----------------------------------------------------------------------------
(* self.indexOfNamedItems *)

RECURSIVE indexOfNamedItemsFrom(_, _, _)
\* the loop from counter i on: items[i].name raises a TypeError on a hole
indexOfNamedItemsFrom(items, name, i) ==
    IF ~(i < Len(items)) THEN [thrown |-> NoError, value |-> -1]
    ELSE IF items[i + 1] = Hole THEN [thrown |-> TypeError]
    ELSE IF items[i + 1].name = name THEN [thrown |-> NoError, value |-> i]
    ELSE indexOfNamedItemsFrom(items, name, i + 1)

indexOfNamedItems(items, name) == indexOfNamedItemsFrom(items, name, 0)

----------------------------------------------------------------------------
(* self.renderSelected *)

\* selectedTaxonomy = selectedTaxonomy || self.selectedTaxonomy (the
\* argument when it is truthy); self.selectedItemsData[selectedTaxonomy] is
\* then read: undefined raises a TypeError on ['itemsBySection'], a member of
\* Object.prototype has no itemsBySection and gives a context without one,
\* an own entry gives its sections; the rendered context is written to
\* #taxonomy-selected-<selectedTaxonomy>
renderSelected(data, selfSelectedTaxonomy, argTaxonomy) ==
    LET sel == IF Falsy(argTaxonomy) THEN selfSelectedTaxonomy ELSE argTaxonomy
        kind == PropertyKind(data, StringOf(sel))
    IN  IF kind = "undefined"
        THEN [thrown |-> TypeError, rendered |-> NoRender]
        ELSE IF kind = "inherited"
        THEN [thrown |-> NoError, rendered |-> [taxonomyName |-> StringOf(sel)]]
        ELSE [thrown |-> NoError,
              rendered |-> [taxonomyName |-> StringOf(sel),
                            itemsBySection |-> data[StringOf(sel)].itemsBySection]]

----------------------------------------------------------------------------
(* self.selectItem *)

\* new parent: create the parent section, unless
\* data['itemsBySection'][parentItemName] reads truthy (an own section
\* record, or a member of Object.prototype)
ensureSection(itemsBySection, parentItemName) ==
    IF PropertyKind(itemsBySection, parentItemName) = "undefined"
    THEN [s \in (DOMAIN itemsBySection) \cup {parentItemName} |->
            IF s = parentItemName
            THEN [name |-> parentItemName, items |-> <<>>]
            ELSE itemsBySection[s]]
    ELSE itemsBySection

\* new item: pushed when items.indexOf(itemName) is truthy
pushIfNew(items, itemName) ==
    IF Truthy(ArrayIndexOf(items, itemName))
    THEN Append(items, Item(itemName))
    ELSE items

\* the body of selectItem once data = self.selectedItemsData[taxonomyName]
\* is an entry of the selection state: the section, the item, then
\* renderSelected().  A section name that Object.prototype answers has no
\* 'items', and .indexOf on undefined raises a TypeError with nothing written
selectItemKnown(data, selfSelectedTaxonomy, taxonomyName, parentItemName, itemName) ==
    LET withSection == ensureSection(data[taxonomyName].itemsBySection, parentItemName)
    IN  IF PropertyKind(withSection, parentItemName) # "own"
        THEN [data |-> data, thrown |-> TypeError, rendered |-> NoRender]
        ELSE LET items == pushIfNew(withSection[parentItemName].items, itemName)
                 newData == [data EXCEPT ![taxonomyName].itemsBySection =
                                [withSection EXCEPT ![parentItemName].items = items]]
                 r == renderSelected(newData, selfSelectedTaxonomy, Undefined)
             IN  [data |-> newData, thrown |-> r.thrown, rendered |-> r.rendered]

\* a taxonomy name that is no entry of the selection state is skipped
\* without an error
selectItemSilent(data, selfSelectedTaxonomy, taxonomyName, parentItemName, itemName) ==
    IF PropertyKind(data, taxonomyName) # "own"
    THEN [data |-> data, thrown |-> NoError, rendered |-> NoRender]
    ELSE selectItemKnown(data, selfSelectedTaxonomy, taxonomyName, parentItemName, itemName)

\* data = self.selectedItemsData[taxonomyName] is undefined, or a member of
\* Object.prototype whose 'itemsBySection' is undefined, for a name that is
\* not a key of selectedItemsData: data['itemsBySection'][parentItemName]
\* then raises a TypeError before anything is written
selectItem(data, selfSelectedTaxonomy, taxonomyName, parentItemName, itemName) ==
    IF PropertyKind(data, taxonomyName) # "own"
    THEN [data |-> data, thrown |-> TypeError, rendered |-> NoRender]
    ELSE selectItemKnown(data, selfSelectedTaxonomy, taxonomyName, parentItemName, itemName)

----------------------------------------------------------------------------
(* self.unselectItem *)

\* the guard data['itemsBySection'][parentItemName] is a truthiness test: a
\* section name that Object.prototype answers passes it, its 'items' is
\* undefined and indexOfNamedItems raises a TypeError on items.length
unselectItem(data, selfSelectedTaxonomy, taxonomyName, parentItemName, itemName) ==
    IF PropertyKind(data, taxonomyName) # "own"
    THEN [data |-> data, thrown |-> TypeError, rendered |-> NoRender]
    ELSE LET itemsBySection == data[taxonomyName].itemsBySection
             kind == PropertyKind(itemsBySection, parentItemName)
         IN  IF kind = "inherited"
             THEN [data |-> data, thrown |-> TypeError, rendered |-> NoRender]
             ELSE IF kind = "own"
             THEN LET items == itemsBySection[parentItemName].items
                      itemIndex == indexOfNamedItems(items, itemName)
                  IN  IF itemIndex.thrown # NoError
                      THEN [data |-> data, thrown |-> itemIndex.thrown,
                            rendered |-> NoRender]
                      ELSE LET newData ==
                                  [data EXCEPT
                                     ![taxonomyName].itemsBySection[parentItemName].items =
                                        ArrayDelete(items, itemIndex.value)]
                               r == renderSelected(newData, selfSelectedTaxonomy, Undefined)
                           IN  [data |-> newData, thrown |-> r.thrown,
                                rendered |-> r.rendered]
             ELSE LET r == renderSelected(data, selfSelectedTaxonomy, Undefined)
                  IN  [data |-> data, thrown |-> r.thrown, rendered |-> r.rendered]

----------------------------------------------------------------------------
(* the click handler of #taxonomy-selector-<t>-container *)

\* the selected taxonomy's scratchpad is not emptied after the paste
clickTaxonomyKeepScratchpad(displayHtml, scratchpads, selfSelectedTaxonomy, clicked) ==
    LET prevTaxonomy == StringOf(selfSelectedTaxonomy)
        copiedBack == IF prevTaxonomy \in DOMAIN scratchpads
                      THEN [scratchpads EXCEPT ![prevTaxonomy] = displayHtml]
                      ELSE scratchpads
    IN  [selectedTaxonomy |-> Str(clicked),
         display |-> copiedBack[clicked],
         scratchpad |-> copiedBack]

\* prevTaxonomy is read before self.selectedTaxonomy is set; the display goes
\* back to prevTaxonomy's scratchpad (a selector that matches no element, as
\* '#taxonomy-selection-undefined-container' with prevTaxonomy undefined,
\* writes nothing); the clicked taxonomy's scratchpad goes to the display
\* and is then emptied
clickTaxonomy(displayHtml, scratchpads, selfSelectedTaxonomy, clicked) ==
    LET prevTaxonomy == StringOf(selfSelectedTaxonomy)
        prevHtml == displayHtml
        copiedBack == IF prevTaxonomy \in DOMAIN scratchpads
                      THEN [scratchpads EXCEPT ![prevTaxonomy] = prevHtml]
                      ELSE scratchpads
        selectedHtml == copiedBack[clicked]
    IN  [selectedTaxonomy |-> Str(clicked),
         display |-> selectedHtml,
         scratchpad |-> [copiedBack EXCEPT ![clicked] = EmptyHtml]]

----------------------------------------------------------------------------
(* The state machine *)

\* the array slots of the whole selection state
Slots(data) ==
    UNION {UNION {{<<t, s, k>> : k \in 1..Len(data[t].itemsBySection[s].items)} :
                    s \in DOMAIN data[t].itemsBySection} :
           t \in DOMAIN data}

\* the forEach over self.taxonomies that fills self.selectedItemsData
EmptySelection ==
    [t \in Taxonomies |-> [name |-> t, itemsBySection |-> <<>>]]

Init ==
    /\ selectedItemsData = EmptySelection
    /\ selectedTaxonomy = Undefined
    /\ display \in {EmptyHtml, <<"placeholder">>}
    /\ scratchpad = [t \in Taxonomies |-> Html(t)]
    /\ lastCall = NoCall
    /\ thrown = NoError
    /\ rendered = NoRender
    /\ log = <<>>

\* a call is left out only where it would grow the selection state beyond
\* MaxItems slots
SelectItemStep(taxonomyName, parentItemName, itemName) ==
    /\ LET r == selectItem(selectedItemsData, selectedTaxonomy,
                           taxonomyName, parentItemName, itemName)
       IN  /\ Cardinality(Slots(r.data)) <= MaxItems
           /\ selectedItemsData' = r.data
           /\ thrown' = r.thrown
           /\ rendered' = r.rendered
    /\ lastCall' = Call("selectItem", taxonomyName, parentItemName, itemName)
    /\ UNCHANGED <<selectedTaxonomy, display, scratchpad>>

SelectItem(taxonomyName, parentItemName, itemName) ==
    /\ SelectItemStep(taxonomyName, parentItemName, itemName)
    /\ UNCHANGED log

UnselectItem(taxonomyName, parentItemName, itemName) ==
    /\ LET r == unselectItem(selectedItemsData, selectedTaxonomy,
                             taxonomyName, parentItemName, itemName)
       IN  /\ selectedItemsData' = r.data
           /\ thrown' = r.thrown
           /\ rendered' = r.rendered
    /\ lastCall' = Call("unselectItem", taxonomyName, parentItemName, itemName)
    /\ UNCHANGED <<selectedTaxonomy, display, scratchpad, log>>

ClickTaxonomy(clicked) ==
    /\ LET r == clickTaxonomy(display, scratchpad, selectedTaxonomy, clicked)
       IN  /\ selectedTaxonomy' = r.selectedTaxonomy
           /\ display' = r.display
           /\ scratchpad' = r.scratchpad
    /\ lastCall' = Click(clicked, selectedTaxonomy)
    /\ thrown' = NoError
    /\ rendered' = NoRender
    /\ UNCHANGED <<selectedItemsData, log>>

Next ==
    \/ \E t \in RenderedTaxonomies \cup UnknownTaxonomies,
          s \in SectionNames, i \in ItemNames :
          SelectItem(t, s, i)
    \/ \E t \in RenderedTaxonomies \cup UnknownTaxonomies,
          s \in SectionNames, i \in ItemNames :
          UnselectItem(t, s, i)
    \/ \E t \in Taxonomies : ClickTaxonomy(t)

Spec == Init /\ [][Next]_vars

\* selectItem calls only, each one logged and at most MaxItems of them, with
\* the tabs clicked in between
SelectItemLogged(taxonomyName, parentItemName, itemName) ==
    /\ Len(log) < MaxItems
    /\ SelectItemStep(taxonomyName, parentItemName, itemName)
    /\ log' = Append(log, <<taxonomyName, parentItemName, itemName>>)

NextSelect ==
    \/ \E t \in Taxonomies, s \in SelectSectionNames, i \in ItemNames :
          SelectItemLogged(t, s, i)
    \/ \E t \in Taxonomies : ClickTaxonomy(t)

SpecSelect == Init /\ [][NextSelect]_vars

----------------------------------------------------------------------------
(* Reading the selection state *)

\* the item sequence of a section, empty when the section has no record
ItemsOf(data, taxonomyName, parentItemName) ==
    IF parentItemName \in DOMAIN data[taxonomyName].itemsBySection
    THEN data[taxonomyName].itemsBySection[parentItemName].items
    ELSE <<>>

\* the positions (one-based) of the slots that hold an item named name
PositionsOf(items, name) ==
    {k \in 1..Len(items) : items[k] # Hole /\ items[k].name = name}

Holds(items, name) == PositionsOf(items, name) # {}

IsItem(x) == x # Hole

\* the items of a sequence in order, the holes left out
Present(items) == SelectSeq(items, IsItem)

\* a sequence without the items named name
RECURSIVE Without(_, _)
Without(items, name) ==
    IF items = <<>> THEN <<>>
    ELSE IF Head(items).name = name THEN Without(Tail(items), name)
    ELSE <<Head(items)>> \o Without(Tail(items), name)

KnownCall(call, op) == call.op = op /\ call.taxonomyName \in Taxonomies

\* a taxonomy tab has been clicked
TabSelected == selectedTaxonomy # Undefined

----------------------------------------------------------------------------
(* C1 *)

\* C1: in every reachable selection state no item name appears more than
\* once in any section's item sequence (selecting twice equals selecting once).
C1_NoDuplicateNames ==
    \A t \in Taxonomies : \A s \in DOMAIN selectedItemsData[t].itemsBySection :
        \A n \in ItemNames :
            Cardinality(PositionsOf(ItemsOf(selectedItemsData, t, s), n)) <= 1

----------------------------------------------------------------------------
(* C2 *)

\* C2: unselectItem(t, s, i) on a known taxonomy whose section s does not
\* exist or holds no item named i completes without raising an error and
\* leaves the selection state unchanged, also after earlier unselectItem
\* calls removed other items from the section.  Stated for the calls made
\* once a tab has been clicked, where renderSelected has a taxonomy to
\* render, and for section names that Object.prototype does not answer.
C2_UnselectAbsentIsNoOp ==
    [][(/\ TabSelected
        /\ KnownCall(lastCall', "unselectItem")
        /\ lastCall'.parentItemName \notin ObjectPrototypeMembers
        /\ ~Holds(ItemsOf(selectedItemsData, lastCall'.taxonomyName,
                          lastCall'.parentItemName), lastCall'.itemName))
       => (thrown' = NoError /\ selectedItemsData' = selectedItemsData)]_vars

----------------------------------------------------------------------------
(* C3 *)

\* C3: unselectItem(t, s, i) on a section that holds an item named i
\* completes and removes it: afterwards the section holds no item named i
\* and every other item it held, in the same order, whatever was selected or
\* unselected in the section before.  Stated for a section that holds the
\* name once, for the calls made once a tab has been clicked, and counting
\* only the items of the sequence, not its empty slots.
C3_UnselectRemoves ==
    [][(/\ TabSelected
        /\ KnownCall(lastCall', "unselectItem")
        /\ Cardinality(PositionsOf(ItemsOf(selectedItemsData, lastCall'.taxonomyName,
                                           lastCall'.parentItemName),
                                   lastCall'.itemName)) = 1)
       => (/\ thrown' = NoError
           /\ Present(ItemsOf(selectedItemsData', lastCall'.taxonomyName,
                              lastCall'.parentItemName))
              = Without(Present(ItemsOf(selectedItemsData, lastCall'.taxonomyName,
                                        lastCall'.parentItemName)),
                        lastCall'.itemName))]_vars

----------------------------------------------------------------------------
(* C4 *)

\* C4: from any reachable state in which section s of taxonomy t does not
\* hold item i, selectItem(t, s, i) followed immediately by
\* unselectItem(t, s, i) returns the section's item sequence to exactly its
\* contents before the selectItem (same elements, same order, same length).
C4_SelectUnselectRoundTrip ==
    \A t \in Taxonomies, s \in SectionNames, i \in ItemNames :
        ~Holds(ItemsOf(selectedItemsData, t, s), i) =>
            LET selected == selectItem(selectedItemsData, selectedTaxonomy, t, s, i)
                unselected == unselectItem(selected.data, selectedTaxonomy, t, s, i)
            IN  ItemsOf(unselected.data, t, s) = ItemsOf(selectedItemsData, t, s)

----------------------------------------------------------------------------
(* C5 *)

\* C5: every selectItem(t, s, i) and unselectItem(t, s, i) call on a known
\* taxonomy re-renders the selected-items view of t itself from t's updated
\* selection state, whichever tab is selected and also when none has been
\* clicked yet, and the re-render raises no error.
C5_RendersCalledTaxonomy ==
    (KnownCall(lastCall, "selectItem") \/ KnownCall(lastCall, "unselectItem")) =>
        /\ thrown = NoError
        /\ rendered = [taxonomyName |-> lastCall.taxonomyName,
                       itemsBySection |->
                           selectedItemsData[lastCall.taxonomyName].itemsBySection]

----------------------------------------------------------------------------
(* C6 *)

DistinctPairs(calls) ==
    \A j, k \in 1..Len(calls) : j # k => calls[j] # calls[k]

OneTaxonomy(calls) ==
    \A j \in 1..Len(calls) : calls[j][1] = calls[1][1]

\* the items the logged calls selected into a section, in call order
LoggedItems(calls, parentItemName) ==
    LET IsOfSection(c) == c[2] = parentItemName
        into == SelectSeq(calls, IsOfSection)
    IN  [k \in 1..Len(into) |-> Item(into[k][3])]

\* the selection state holding exactly the logged pairs of one taxonomy
LoggedSelection(calls) ==
    [t \in Taxonomies |->
        [name |-> t,
         itemsBySection |->
            IF calls # <<>> /\ t = calls[1][1]
            THEN [s \in {calls[k][2] : k \in 1..Len(calls)} |->
                    [name |-> s, items |-> LoggedItems(calls, s)]]
            ELSE <<>>]]

\* C6: from the empty selection state, after selectItem calls on one
\* taxonomy with pairwise distinct (section, item) pairs, that taxonomy holds
\* a section record per distinct section name with exactly the items
\* selected into it, in selection order, and the other taxonomies hold nothing.
C6_DistinctSelectsAreHeld ==
    (DistinctPairs(log) /\ OneTaxonomy(log)) =>
        selectedItemsData = LoggedSelection(log)

----------------------------------------------------------------------------
(* C7 *)

\* the zero-based position of the first item named name, or -1
FirstPosition(items, name) ==
    IF Holds(items, name) THEN Min(PositionsOf(items, name)) - 1 ELSE -1

\* C7: indexOfNamedItems(items, name) returns, without raising, the
\* zero-based position of the first element named name, or -1, for every
\* section item sequence of a reachable selection state.
C7_IndexOfNamedItemsReturns ==
    \A t \in Taxonomies : \A s \in DOMAIN selectedItemsData[t].itemsBySection :
        \A n \in ItemNames :
            LET r == indexOfNamedItems(ItemsOf(selectedItemsData, t, s), n)
            IN  /\ r.thrown = NoError
                /\ r.value = FirstPosition(ItemsOf(selectedItemsData, t, s), n)

----------------------------------------------------------------------------
(* C8 *)

UnknownSelect(call) ==
    call.op = "selectItem" /\ call.taxonomyName \notin Taxonomies

\* C8 as stated: selectItem with a taxonomy name that is not a known
\* taxonomy raises no error and leaves the selection state unchanged.
C8_UnknownTaxonomyIsSilent ==
    [][UnknownSelect(lastCall') =>
         (thrown' = NoError /\ selectedItemsData' = selectedItemsData)]_vars

\* C8, amended: selectItem with a taxonomy name that is not a known taxonomy
\* raises a TypeError before it writes anything: the selection state of
\* every known taxonomy is unchanged and nothing is rendered.
C8_UnknownTaxonomyThrows ==
    [][UnknownSelect(lastCall') =>
         (/\ thrown' = TypeError
          /\ selectedItemsData' = selectedItemsData
          /\ rendered' = NoRender)]_vars

C8_Witness ==
    /\ UnknownSelect(lastCall)
    /\ thrown = TypeError
    /\ TabSelected
    /\ Slots(selectedItemsData) # {}

----------------------------------------------------------------------------
(* C9 *)

\* C9: selectItem(t, s, i) on a section that holds i at position 0
\* appends a second {name: i}; on a section that holds i only at positions
\* other than 0 it appends nothing.
C9_DuplicateCheckByPosition ==
    [][(/\ KnownCall(lastCall', "selectItem")
        /\ Holds(ItemsOf(selectedItemsData, lastCall'.taxonomyName,
                         lastCall'.parentItemName), lastCall'.itemName))
       => LET before == ItemsOf(selectedItemsData, lastCall'.taxonomyName,
                                lastCall'.parentItemName)
              after == ItemsOf(selectedItemsData', lastCall'.taxonomyName,
                               lastCall'.parentItemName)
          IN  IF 1 \in PositionsOf(before, lastCall'.itemName)
              THEN after = Append(before, Item(lastCall'.itemName))
              ELSE after = before]_vars

----------------------------------------------------------------------------
(* C10 *)

\* C10: after any sequence of tab clicks the display holds the content of
\* the selected taxonomy, that taxonomy's scratchpad is empty and every
\* other taxonomy's scratchpad holds its own content; before the first
\* click every scratchpad holds its own content.
C10_ScratchpadSwap ==
    /\ selectedTaxonomy = Undefined =>
          \A t \in Taxonomies : scratchpad[t] = Html(t)
    /\ selectedTaxonomy # Undefined =>
          /\ StringOf(selectedTaxonomy) \in Taxonomies
          /\ display = Html(StringOf(selectedTaxonomy))
          /\ scratchpad[StringOf(selectedTaxonomy)] = EmptyHtml
          /\ \A t \in Taxonomies \ {StringOf(selectedTaxonomy)} :
                scratchpad[t] = Html(t)

\* a click on another tab than the one selected, after an earlier click
C10_Witness ==
    /\ lastCall.op = "click"
    /\ lastCall.prevTaxonomy = Str("skills")
    /\ selectedTaxonomy = Str("interests")
    /\ display = Html("interests")
    /\ scratchpad["skills"] = Html("skills")
    /\ scratchpad["interests"] = EmptyHtml

====
